---- MODULE Spec2Model ----
(***************************************************************************)
(* A model of minesweeper.py: the Tile and MinesweeperBoard classes and    *)
(* the game loop of minesweeper().  A tile is identified by its position   *)
(* <<row, column>>; board maps each position to the tile's fields.  The    *)
(* recursion of evaluate_tile is modelled by an explicit call stack, one   *)
(* frame per active call.                                                  *)
(***************************************************************************)
EXTENDS Integers, Sequences, FiniteSets, TLC

\* Largest board size (--size) explored.
MaxSize == 3
\* Largest number of coordinates populate_board_with_mines draws in a game
\* that is then played.
MaxDraws == 1
\* Largest board size and number of draws when only the placement is run.
MaxPlaceSize == 3
MaxPlaceDraws == 4
\* Largest board size and number of draws when termination is checked.
MaxLiveSize == 2
MaxLiveDraws == 2
\* How far outside [0, size-1] the coordinates of a lookup range.
MaxSlack == 2

VARIABLES
    size,           \* MinesweeperBoard.size
    difficulty,     \* MinesweeperBoard.difficulty
    board,          \* MinesweeperBoard.board: position -> Tile fields
    n_total_mines,  \* MinesweeperBoard.n_total_mines
    pc,             \* position of minesweeper() in its code
    keep_playing,   \* local keep_playing of minesweeper()
    inp,            \* the <<x, y>> last read from the prompt, or None
    tile,           \* local tile of minesweeper(), a position or None
    stack,          \* active calls of evaluate_tile, innermost last
    coords,         \* local coords of populate_board_with_mines
    shown           \* the board as last rendered by display_board

vars == <<size, difficulty, board, n_total_mines, pc, keep_playing, inp,
          tile, stack, coords, shown>>

\* Python's None (an absent tile).
None == << >>

\* The keys of DIFFICULTY_MAPPING.
Difficulties == {"easy", "medium", "hard", "insane"}

\* The density fractions, in tenths: 0.1, 0.2, 0.3, 0.5.
DIFFICULTY_MAPPING == [easy |-> 1, medium |-> 2, hard |-> 3, insane |-> 5]

\* The fields of a Tile other than its position.
Tile(tt, rev, n) == [tile_type |-> tt, revealed |-> rev, n_adjacent_mines |-> n]

\* The positions of a board of size s.
Positions(s) == (0 .. s - 1) \X (0 .. s - 1)

\* board_init: every tile empty, unrevealed, count 0, at its own position.
board_init(s) == [p \in Positions(s) |-> Tile("empty", FALSE, 0)]

\* set_number_of_mines: int(size * size * fraction); the fraction is a
\* number of tenths, and the float product truncates to this quotient.
set_number_of_mines(s, d) == (s * s * DIFFICULTY_MAPPING[d]) \div 10

\* The result of a list subscript that raised IndexError.
IndexError == 0 - 1

\* Python's list subscript on a list of length len: the position read, where
\* a negative subscript counts from the end, or IndexError.
PyIndex(len, i) ==
    IF i >= 0 /\ i < len THEN i
    ELSE IF i < 0 /\ i >= 0 - len THEN i + len
    ELSE IndexError

\* get_tile without the tests for negative coordinates: the subscripts wrap.
get_tile_no_negative_test(x, y) ==
    IF x > size THEN None
    ELSE IF y > size THEN None
    ELSE LET r == PyIndex(size, x) IN
         IF r = IndexError THEN None
         ELSE LET c == PyIndex(size, y) IN
              IF c = IndexError THEN None ELSE <<r, c>>

\* get_tile: the tile stored at board[x][y], or None.
get_tile(x, y) ==
    IF x < 0 \/ x > size THEN None
    ELSE IF y < 0 \/ y > size THEN None
    ELSE LET r == PyIndex(size, x) IN
         IF r = IndexError THEN None
         ELSE LET c == PyIndex(size, y) IN
              IF c = IndexError THEN None ELSE <<r, c>>

\* The offsets without the diagonals.
OffsetsOrthogonal ==
    << <<0 - 1, 0>>, <<0, 0 - 1>>, <<0, 1>>, <<1, 0>> >>

\* The offsets with the tile itself among them.
OffsetsWithSelf ==
    << <<0 - 1, 0 - 1>>, <<0 - 1, 0>>, <<0 - 1, 1>>,
       <<0, 0 - 1>>,     <<0, 0>>,     <<0, 1>>,
       <<1, 0 - 1>>,     <<1, 0>>,     <<1, 1>> >>

\* The eight offsets of evaluate_tile's lookups, in the order of the list.
Offsets ==
    << <<0 - 1, 0 - 1>>, <<0 - 1, 0>>, <<0 - 1, 1>>,
       <<0, 0 - 1>>,                   <<0, 1>>,
       <<1, 0 - 1>>,     <<1, 0>>,     <<1, 1>> >>

\* The list adjacent_tiles as first built: eight get_tile results.
adjacent_lookup(t) ==
    [i \in 1 .. Len(Offsets) |->
        get_tile(t[1] + Offsets[i][1], t[2] + Offsets[i][2])]

\* adjacent_tiles without the filter on revealed tiles.
adjacent_tiles_keeps_revealed(b, t) ==
    SelectSeq(adjacent_lookup(t), LAMBDA u : u # None)

\* The list adjacent_tiles after the filter: present and not revealed in b.
adjacent_tiles(b, t) ==
    SelectSeq(adjacent_lookup(t), LAMBDA u : u # None /\ ~b[u].revealed)

\* mine_counter whose loop skips the first tile of the list.
mine_counter_skips_first(b, adj) ==
    Cardinality({i \in 2 .. Len(adj) : b[adj[i]].tile_type = "mine"})

\* mine_counter that is never incremented.
mine_counter_never_incremented(b, adj) == Cardinality({})

\* mine_counter: how many tiles of the list adj are mines in b.
mine_counter(b, adj) ==
    Cardinality({i \in 1 .. Len(adj) : b[adj[i]].tile_type = "mine"})

\* A call of evaluate_tile(t) that has not run any statement yet.
StartFrame(t) == [tile |-> t, adj |-> << >>, i |-> 0, pc |-> "start"]

\* A call of evaluate_tile(t) in its final loop, about to visit adj[i].
LoopFrame(t, adj, i) == [tile |-> t, adj |-> adj, i |-> i, pc |-> "loop"]

Top == stack[Len(stack)]

Pop == SubSeq(stack, 1, Len(stack) - 1)

TypeOK ==
    /\ size \in Nat \ {0}
    /\ difficulty \in Difficulties
    /\ DOMAIN board = Positions(size)
    /\ pc \in {"populate", "prompt", "reject", "check", "evaluate",
               "in_evaluate", "done", "error"}
    /\ keep_playing \in BOOLEAN

\* minesweeper() after MinesweeperBoard(size, difficulty) was constructed,
\* for a size up to maxSize and a difficulty that draws up to maxDraws.
Constructed(maxSize, maxDraws) ==
    /\ size \in 1 .. maxSize
    /\ difficulty \in Difficulties
    /\ set_number_of_mines(size, difficulty) <= maxDraws
    /\ board = board_init(size)
    /\ n_total_mines = set_number_of_mines(size, difficulty)
    /\ pc = "populate"
    /\ keep_playing = TRUE
    /\ inp = None
    /\ tile = None
    /\ stack = << >>
    /\ coords = {}
    /\ shown = board

Init == Constructed(MaxSize, MaxDraws)

\* populate_board_with_mines that keeps the target in n_total_mines.
populate_board_with_mines_keeps_target ==
    /\ pc = "populate"
    /\ \E mine_x_coords, mine_y_coords \in [1 .. n_total_mines -> 0 .. size - 1] :
          LET cs == {<<mine_x_coords[i], mine_y_coords[i]>> : i \in 1 .. n_total_mines}
              ts == {get_tile(c[1], c[2]) : c \in cs}
          IN  /\ coords' = cs
              /\ board' = [p \in DOMAIN board |->
                              IF p \in ts THEN [board[p] EXCEPT !.tile_type = "mine"]
                              ELSE board[p]]
    /\ keep_playing' = TRUE
    /\ pc' = "prompt"
    /\ shown' = board'
    /\ UNCHANGED <<size, difficulty, n_total_mines, inp, tile, stack>>

\* populate_board_with_mines, then the first display_board of the loop.
populate_board_with_mines ==
    /\ pc = "populate"
    /\ \E mine_x_coords, mine_y_coords \in [1 .. n_total_mines -> 0 .. size - 1] :
          LET cs == {<<mine_x_coords[i], mine_y_coords[i]>> : i \in 1 .. n_total_mines}
              ts == {get_tile(c[1], c[2]) : c \in cs}
          IN  /\ coords' = cs
              /\ n_total_mines' = Cardinality(cs)
              /\ board' = [p \in DOMAIN board |->
                              IF p \in ts THEN [board[p] EXCEPT !.tile_type = "mine"]
                              ELSE board[p]]
    /\ keep_playing' = TRUE
    /\ pc' = "prompt"
    /\ shown' = board'
    /\ UNCHANGED <<size, difficulty, inp, tile, stack>>

\* The pass of the loop without the test for a revealed tile.
minesweeper_select_no_revealed_test(x, y) ==
    /\ pc = "prompt"
    /\ inp' = <<x, y>>
    /\ tile' = get_tile(x, y)
    /\ IF tile' = None
       THEN /\ pc' = "error"
            /\ board' = board
       ELSE /\ pc' = "check"
            /\ board' = [board EXCEPT ![tile'].revealed = TRUE]
    /\ UNCHANGED <<size, difficulty, n_total_mines, keep_playing, stack,
                   coords, shown>>

\* The pass of the loop with a validation: an absent tile leads back to the
\* prompt.
minesweeper_select_reprompts(x, y) ==
    /\ pc = "prompt"
    /\ IF get_tile(x, y) = None
       THEN /\ pc' = "prompt"
            /\ inp' = <<x, y>>
            /\ tile' = None
            /\ board' = board
       ELSE /\ inp' = <<x, y>>
            /\ tile' = get_tile(x, y)
            /\ IF board[tile'].revealed
               THEN /\ pc' = "reject"
                    /\ board' = board
               ELSE /\ pc' = "check"
                    /\ board' = [board EXCEPT ![tile'].revealed = TRUE]
    /\ UNCHANGED <<size, difficulty, n_total_mines, keep_playing, stack,
                   coords, shown>>

\* One pass of the loop from the prompt to the statement after the revealed
\* test: an absent tile raises, a revealed tile is refused, any other tile is
\* marked revealed.
minesweeper_select(x, y) ==
    /\ pc = "prompt"
    /\ inp' = <<x, y>>
    /\ tile' = get_tile(x, y)
    /\ IF tile' = None
       THEN /\ pc' = "error"
            /\ board' = board
       ELSE IF board[tile'].revealed
       THEN /\ pc' = "reject"
            /\ board' = board
       ELSE /\ pc' = "check"
            /\ board' = [board EXCEPT ![tile'].revealed = TRUE]
    /\ UNCHANGED <<size, difficulty, n_total_mines, keep_playing, stack,
                   coords, shown>>

\* The continue statement after the error message: back to the prompt.
minesweeper_continue ==
    /\ pc = "reject"
    /\ pc' = "prompt"
    /\ shown' = board
    /\ inp' = None
    /\ tile' = None
    /\ UNCHANGED <<size, difficulty, board, n_total_mines, keep_playing, stack,
                   coords>>

\* check_if_mine whose loop reveals the mines and hides the other tiles.
check_if_mine_shows_only_mines ==
    /\ pc = "check"
    /\ IF board[tile].tile_type = "mine"
       THEN /\ board' = [p \in DOMAIN board |->
                            [board[p] EXCEPT !.revealed = (board[p].tile_type = "mine")]]
            /\ shown' = board'
            /\ keep_playing' = FALSE
       ELSE /\ keep_playing' = TRUE
            /\ UNCHANGED <<board, shown>>
    /\ pc' = "evaluate"
    /\ UNCHANGED <<size, difficulty, n_total_mines, inp, tile, stack, coords>>

\* check_if_mine without the loop that reveals every tile.
check_if_mine_reveals_one ==
    /\ pc = "check"
    /\ IF board[tile].tile_type = "mine"
       THEN /\ board' = [board EXCEPT ![tile].revealed = TRUE]
            /\ shown' = board'
            /\ keep_playing' = FALSE
       ELSE /\ keep_playing' = TRUE
            /\ UNCHANGED <<board, shown>>
    /\ pc' = "evaluate"
    /\ UNCHANGED <<size, difficulty, n_total_mines, inp, tile, stack, coords>>

\* keep_playing = board.check_if_mine(tile)
check_if_mine ==
    /\ pc = "check"
    /\ IF board[tile].tile_type = "mine"
       THEN /\ board' = [p \in DOMAIN board |-> [board[p] EXCEPT !.revealed = TRUE]]
            /\ shown' = board'
            /\ keep_playing' = FALSE
       ELSE /\ keep_playing' = TRUE
            /\ UNCHANGED <<board, shown>>
    /\ pc' = "evaluate"
    /\ UNCHANGED <<size, difficulty, n_total_mines, inp, tile, stack, coords>>

\* board.evaluate_tile(tile), the call of the game loop.
minesweeper_evaluate ==
    /\ pc = "evaluate"
    /\ stack' = <<StartFrame(tile)>>
    /\ pc' = "in_evaluate"
    /\ UNCHANGED <<size, difficulty, board, n_total_mines, keep_playing, inp,
                   tile, coords, shown>>

\* The return with a win test: the loop also ends when every tile that is no
\* mine is revealed.
Return_with_win_test(b) ==
    LET go_on == keep_playing /\ \E p \in DOMAIN b :
                     b[p].tile_type # "mine" /\ ~b[p].revealed
    IN  /\ stack' = Pop
        /\ IF Len(stack) = 1
           THEN /\ pc' = IF go_on THEN "prompt" ELSE "done"
                /\ shown' = IF go_on THEN b ELSE shown
                /\ inp' = IF go_on THEN None ELSE inp
                /\ tile' = IF go_on THEN None ELSE tile
           ELSE UNCHANGED <<pc, shown, inp, tile>>

\* The innermost call of evaluate_tile returns; when it was the call of the
\* game loop, the loop tests keep_playing and displays the board again.  At
\* the prompt the locals x, y and tile hold values the loop overwrites before
\* it reads them: they are None there.
Return(b) ==
    /\ stack' = Pop
    /\ IF Len(stack) = 1
       THEN /\ pc' = IF keep_playing THEN "prompt" ELSE "done"
            /\ shown' = IF keep_playing THEN b ELSE shown
            /\ inp' = IF keep_playing THEN None ELSE inp
            /\ tile' = IF keep_playing THEN None ELSE tile
       ELSE UNCHANGED <<pc, shown, inp, tile>>

\* evaluate_tile with "+=" for "=" in the assignments of the count.
evaluate_tile_accumulates_count ==
    /\ pc = "in_evaluate"
    /\ Top.pc = "start"
    /\ LET t == Top.tile
           adj == adjacent_tiles(board, t)
           mc == mine_counter(board, adj)
       IN  /\ board' = [board EXCEPT ![t] =
                            Tile("empty", TRUE, board[t].n_adjacent_mines + mc)]
           /\ IF mc > 0
              THEN Return(board')
              ELSE /\ stack' = Pop \o <<LoopFrame(t, adj, 1)>>
                   /\ UNCHANGED <<pc, shown, inp, tile>>
    /\ UNCHANGED <<size, difficulty, n_total_mines, keep_playing, coords>>

\* evaluate_tile without the return of the branch mine_counter > 0.
evaluate_tile_always_recurses ==
    /\ pc = "in_evaluate"
    /\ Top.pc = "start"
    /\ LET t == Top.tile
           adj == adjacent_tiles(board, t)
           mc == mine_counter(board, adj)
       IN  /\ board' = [board EXCEPT ![t] = Tile("empty", TRUE, mc)]
           /\ stack' = Pop \o <<LoopFrame(t, adj, 1)>>
           /\ UNCHANGED <<pc, shown, inp, tile>>
    /\ UNCHANGED <<size, difficulty, n_total_mines, keep_playing, coords>>

\* evaluate_tile that returns after it marked the tile, whatever the count.
evaluate_tile_never_recurses ==
    /\ pc = "in_evaluate"
    /\ Top.pc = "start"
    /\ LET t == Top.tile
           adj == adjacent_tiles(board, t)
           mc == mine_counter(board, adj)
       IN  /\ board' = [board EXCEPT ![t] = Tile("empty", TRUE, mc)]
           /\ Return(board')
    /\ UNCHANGED <<size, difficulty, n_total_mines, keep_playing, coords>>

\* evaluate_tile whose branch mine_counter > 0 does not set revealed.
evaluate_tile_numbered_not_revealed ==
    /\ pc = "in_evaluate"
    /\ Top.pc = "start"
    /\ LET t == Top.tile
           adj == adjacent_tiles(board, t)
           mc == mine_counter(board, adj)
       IN  /\ board' = [board EXCEPT ![t] =
                            Tile("empty", IF mc > 0 THEN board[t].revealed ELSE TRUE, mc)]
           /\ IF mc > 0
              THEN Return(board')
              ELSE /\ stack' = Pop \o <<LoopFrame(t, adj, 1)>>
                   /\ UNCHANGED <<pc, shown, inp, tile>>
    /\ UNCHANGED <<size, difficulty, n_total_mines, keep_playing, coords>>

\* evaluate_tile from its first statement to the start of its final loop.
evaluate_tile ==
    /\ pc = "in_evaluate"
    /\ Top.pc = "start"
    /\ LET t == Top.tile
           adj == adjacent_tiles(board, t)
           mc == mine_counter(board, adj)
       IN  /\ board' = [board EXCEPT ![t] = Tile("empty", TRUE, mc)]
           /\ IF mc > 0
              THEN Return(board')
              ELSE /\ stack' = Pop \o <<LoopFrame(t, adj, 1)>>
                   /\ UNCHANGED <<pc, shown, inp, tile>>
    /\ UNCHANGED <<size, difficulty, n_total_mines, keep_playing, coords>>

\* The final loop that starts over at the end of a list that is not empty.
evaluate_tile_loop_restarts ==
    /\ pc = "in_evaluate"
    /\ Top.pc = "loop"
    /\ IF Top.i <= Len(Top.adj)
       THEN /\ stack' = Pop \o <<LoopFrame(Top.tile, Top.adj, Top.i + 1),
                                 StartFrame(Top.adj[Top.i])>>
            /\ UNCHANGED <<pc, shown, inp, tile>>
       ELSE IF Top.adj # << >>
       THEN /\ stack' = Pop \o <<LoopFrame(Top.tile, Top.adj, 1)>>
            /\ UNCHANGED <<pc, shown, inp, tile>>
       ELSE Return(board)
    /\ UNCHANGED <<size, difficulty, board, n_total_mines, keep_playing, coords>>

\* One iteration of "for t in adjacent_tiles: self.evaluate_tile(t)", or the
\* return at the end of the list.
evaluate_tile_loop ==
    /\ pc = "in_evaluate"
    /\ Top.pc = "loop"
    /\ IF Top.i <= Len(Top.adj)
       THEN /\ stack' = Pop \o <<LoopFrame(Top.tile, Top.adj, Top.i + 1),
                                 StartFrame(Top.adj[Top.i])>>
            /\ UNCHANGED <<pc, shown, inp, tile>>
       ELSE Return(board)
    /\ UNCHANGED <<size, difficulty, board, n_total_mines, keep_playing, coords>>

\* The coordinates a player may type.
Inputs == (0 - 1) .. size

Next ==
    \/ populate_board_with_mines
    \/ \E x, y \in Inputs : minesweeper_select(x, y)
    \/ minesweeper_continue
    \/ check_if_mine
    \/ minesweeper_evaluate
    \/ evaluate_tile
    \/ evaluate_tile_loop

Spec == Init /\ [][Next]_vars

\* The game with its steps of evaluate_tile taken whenever they can be: a
\* call that is running is not suspended forever (one thread, no input is
\* read inside evaluate_tile).
InitLive == Constructed(MaxLiveSize, MaxLiveDraws)

SpecLive ==
    InitLive /\ [][Next]_vars /\ WF_vars(evaluate_tile) /\ WF_vars(evaluate_tile_loop)

\* A caller that runs evaluate_tile(t) twice in a row: its frame lies under
\* the frames of the calls, and done tells whether the first call returned.
TwiceFrame(t, done) == [tile |-> t, adj |-> << >>, i |-> done, pc |-> "twice"]

\* In place of the game loop's call: the first of two calls of
\* evaluate_tile on the selected tile, which is no mine.
evaluate_tile_first ==
    /\ pc = "evaluate"
    /\ keep_playing
    /\ stack' = <<TwiceFrame(tile, 0), StartFrame(tile)>>
    /\ pc' = "in_evaluate"
    /\ UNCHANGED <<size, difficulty, board, n_total_mines, keep_playing, inp,
                   tile, coords, shown>>

\* The first call returned: the board is rendered and the second call of
\* evaluate_tile on the same tile starts.
evaluate_tile_second ==
    /\ pc = "in_evaluate"
    /\ Top.pc = "twice"
    /\ Top.i = 0
    /\ stack' = <<TwiceFrame(Top.tile, 1), StartFrame(Top.tile)>>
    /\ shown' = board
    /\ UNCHANGED <<size, difficulty, board, n_total_mines, pc, keep_playing,
                   inp, tile, coords>>

\* The game, where any call of the game loop on a tile that is no mine may
\* be replaced by two calls in a row.
NextTwice ==
    \/ Next
    \/ evaluate_tile_first
    \/ evaluate_tile_second

SpecTwice == Init /\ [][NextTwice]_vars

\* The placement alone, on larger boards and with more draws.
InitPlace == Constructed(MaxPlaceSize, MaxPlaceDraws)

NextPlace == populate_board_with_mines

SpecPlace == InitPlace /\ [][NextPlace]_vars


\* TILE_TYPES: the glyph of a kind.
TILE_TYPES == [unknown |-> "?", empty |-> " ", mine |-> "!"]

\* Tile.__repr__: the text display_board prints for a tile with fields t.
repr(t) ==
    IF t.n_adjacent_mines > 0 THEN "digit"
    ELSE IF t.revealed THEN TILE_TYPES[t.tile_type]
    ELSE TILE_TYPES["unknown"]

(***************************************************************************)
(* Notions the properties are stated in.  They are computed from the       *)
(* geometry of the grid and from coords, the positions the placement       *)
(* chose, not from get_tile or from the tiles' fields.                      *)
(***************************************************************************)

Abs(n) == IF n < 0 THEN 0 - n ELSE n

\* The in-bounds positions that touch p, diagonals included.
Nbrs(p) ==
    {q \in Positions(size) : q # p /\ Abs(q[1] - p[1]) <= 1 /\ Abs(q[2] - p[2]) <= 1}

\* How many placed mines touch p.
AdjMines(p) == Cardinality(Nbrs(p) \cap coords)

\* The tiles that are no mine and touch no mine.
ZeroTiles == {p \in Positions(size) \ coords : AdjMines(p) = 0}

RECURSIVE Grow(_)
\* The zero tiles that can be reached from S through zero tiles.
Grow(S) ==
    LET T == S \cup {q \in ZeroTiles : \E r \in S : q \in Nbrs(r)}
    IN  IF T = S THEN S ELSE Grow(T)

\* The 8-connected region of zero tiles that contains the zero tile p.
Region(p) == Grow({p})

\* The tiles that are no mine, touch the region R and are not in it.
Ring(R) == {q \in Positions(size) \ (coords \cup R) : \E r \in R : q \in Nbrs(r)}

Revealed(b) == {p \in DOMAIN b : b[p].revealed}

MineTiles(b) == {p \in DOMAIN b : b[p].tile_type = "mine"}

IsCorner(p) == p[1] \in {0, size - 1} /\ p[2] \in {0, size - 1}

IsBorder(p) == p[1] \in {0, size - 1} \/ p[2] \in {0, size - 1}

\* The call of the game loop has visited its whole list and is about to return.
TopCallEnds ==
    /\ pc = "in_evaluate"
    /\ Len(stack) = 1
    /\ stack[1].pc = "loop"
    /\ stack[1].i > Len(stack[1].adj)

(***************************************************************************)
(* C1.  evaluate_tile is never invoked on a tile whose kind is Mine: no    *)
(* call of evaluate_tile starts on a tile that is a mine at that moment.   *)
(* The game loop calls evaluate_tile after check_if_mine returned False.   *)
(***************************************************************************)
C1_EvaluateNeverOnMine ==
    \A k \in 1 .. Len(stack) :
        stack[k].pc = "start" => board[stack[k].tile].tile_type # "mine"

(***************************************************************************)
(* C2.  After the placement, in every state, a tile's kind is Mine if and  *)
(* only if its position is one of those the placement chose.  The call of  *)
(* evaluate_tile after a loss turns the selected mine into an empty tile.  *)
(***************************************************************************)
C2_MineIffPlaced ==
    pc # "populate" => MineTiles(board) = coords

(***************************************************************************)
(* C3.  Once a tile's revealed flag is true, it is true in every later     *)
(* state: no step turns a revealed tile into an unrevealed one.            *)
(***************************************************************************)
C3_RevealedMonotonic ==
    [][\A p \in DOMAIN board : board[p].revealed => board'[p].revealed]_vars

\* A loss after earlier reveals: the whole board was force-revealed.
C3_Witness ==
    /\ pc = "done"
    /\ Cardinality(Revealed(shown)) >= 4
    /\ Revealed(board) = DOMAIN board

(***************************************************************************)
(* C4.  check_if_mine returns False exactly when the tile is a mine, and   *)
(* in the state in which it returned False every tile is revealed.         *)
(***************************************************************************)
C4_CheckIfMine ==
    pc = "evaluate" =>
        /\ keep_playing = (board[tile].tile_type # "mine")
        /\ ~keep_playing => Revealed(board) = DOMAIN board

\* check_if_mine has just returned False on a board of several tiles, some of
\* which the player had not revealed.
C4_Witness ==
    /\ pc = "evaluate"
    /\ ~keep_playing
    /\ size >= 2
    /\ Revealed(board) = DOMAIN board

(***************************************************************************)
(* C5.  When the player selects an unrevealed tile that is no mine and     *)
(* touches no mine, then at the end of the game loop's call of             *)
(* evaluate_tile every tile of the selected tile's region of zero tiles    *)
(* and of the ring of non-mine tiles around it is revealed, and every tile *)
(* outside this set has the revealed flag it had before the selection.     *)
(***************************************************************************)
C5_FloodFill ==
    (TopCallEnds /\ keep_playing /\ AdjMines(tile) = 0) =>
        LET R == Region(tile) \cup Ring(Region(tile))
        IN  /\ ~shown[tile].revealed
            /\ \A p \in R : board[p].revealed
            /\ \A p \in DOMAIN board \ R : board[p].revealed = shown[p].revealed

\* A flood fill ends that revealed several tiles, left a non-mine tile
\* unrevealed and met a ring tile that an earlier turn had revealed.
C5_Witness ==
    /\ TopCallEnds /\ keep_playing /\ AdjMines(tile) = 0
    /\ Cardinality(Revealed(board) \ Revealed(shown)) >= 3
    /\ \E p \in DOMAIN board \ coords : ~board[p].revealed
    /\ \E p \in Ring(Region(tile)) : shown[p].revealed

(***************************************************************************)
(* C6.  After populate_board_with_mines, n_total_mines is at most          *)
(* floor(size * size * fraction), and it equals the number of distinct     *)
(* coordinates drawn, which is the number of tiles whose kind is Mine.     *)
(***************************************************************************)
C6_MineCount ==
    pc = "prompt" =>
        /\ n_total_mines <= set_number_of_mines(size, difficulty)
        /\ n_total_mines = Cardinality(coords)
        /\ n_total_mines = Cardinality(MineTiles(board))

\* Draws collided: fewer mines than the target, and more than one.
C6_Witness ==
    /\ pc = "prompt"
    /\ n_total_mines >= 2
    /\ n_total_mines < set_number_of_mines(size, difficulty)
    /\ Cardinality(MineTiles(board)) = n_total_mines

(***************************************************************************)
(* C7.  When the player selects a tile that is already revealed, the       *)
(* selection is refused: the step changes no tile and no field of the      *)
(* board, it starts neither check_if_mine nor evaluate_tile, and the next  *)
(* step of the loop is the prompt, again with nothing changed.             *)
(***************************************************************************)
C7_RejectRevealed ==
    [][/\ (pc = "prompt" /\ tile' # None /\ board[tile'].revealed) =>
              /\ pc' = "reject"
              /\ UNCHANGED <<board, size, difficulty, n_total_mines, stack,
                             keep_playing>>
       /\ pc = "reject" =>
              /\ pc' = "prompt"
              /\ UNCHANGED <<board, size, difficulty, n_total_mines, stack,
                             keep_playing>>]_vars

\* A selection of a revealed tile was refused while other tiles are unrevealed.
C7_Witness ==
    /\ pc = "reject"
    /\ board[tile].revealed
    /\ Revealed(board) # DOMAIN board

(***************************************************************************)
(* C8.  get_tile(x, y) is the tile stored at row x, column y when both     *)
(* coordinates are in 0 .. size-1, and None for every other pair, among    *)
(* them x = size, y = size and negative coordinates.  get_tile reads only  *)
(* size, which no step changes: the lookups are compared in the states in  *)
(* which the game loop has just called get_tile, the loop's own lookup     *)
(* among them.                                                             *)
(***************************************************************************)
Stored(x, y) ==
    IF x \in 0 .. size - 1 /\ y \in 0 .. size - 1 THEN <<x, y>> ELSE None

C8_GetTile ==
    pc \in {"check", "reject", "error"} =>
        /\ tile = Stored(inp[1], inp[2])
        /\ \A x, y \in (0 - MaxSlack) .. (size - 1 + MaxSlack) :
               get_tile(x, y) = Stored(x, y)

\* The player typed row size and a negative column: the lookup gave None.
C8_Witness ==
    /\ pc = "error"
    /\ tile = None
    /\ inp[1] = size
    /\ inp[2] < 0

(***************************************************************************)
(* C9.  The neighbour lookup of evaluate_tile, before the revealed filter, *)
(* finds at most 3 tiles for a corner tile, at most 5 for a border tile    *)
(* that is no corner and exactly 8 for an interior tile; the tile itself   *)
(* is never among them.  The lookup reads only size: it is counted for     *)
(* every tile of the board in the states in which the game loop is about   *)
(* to call evaluate_tile.                                                  *)
(***************************************************************************)
C9_NeighbourCount ==
    pc = "evaluate" =>
        \A p \in Positions(size) :
            LET found == adjacent_lookup(p)
                n == Cardinality({k \in DOMAIN found : found[k] # None})
            IN  /\ IsCorner(p) => n <= 3
                /\ (IsBorder(p) /\ ~IsCorner(p)) => n <= 5
                /\ ~IsBorder(p) => n = 8
                /\ \A k \in DOMAIN found : found[k] # p

\* The loop is about to call evaluate_tile on a board that has interior tiles,
\* corners and border tiles that are no corner.
C9_Witness ==
    /\ pc = "evaluate"
    /\ \E p \in Positions(size) : ~IsBorder(p)
    /\ \E p \in Positions(size) : IsBorder(p) /\ ~IsCorner(p)
    /\ Len(SelectSeq(adjacent_lookup(tile), LAMBDA u : u # None)) = 8

(***************************************************************************)
(* C10.  For in-range selections the game loop ends if and only if the     *)
(* player selected an unrevealed mine: the loop is over only after such a  *)
(* selection, after it no selection is read any more, and after any other  *)
(* selection the loop goes on, also when every non-mine tile is revealed.  *)
(***************************************************************************)
C10_LoopEndsOnlyOnMine ==
    /\ pc = "done" => (~keep_playing /\ tile \in coords)
    /\ ~keep_playing => (pc \in {"evaluate", "in_evaluate", "done"} /\ tile \in coords)
    /\ (pc \in {"evaluate", "in_evaluate"} /\ tile \in coords) => ~keep_playing
    /\ (pc = "prompt" /\ stack = << >>) => keep_playing

\* Every non-mine tile of a board with a mine is revealed and the loop prompts.
C10_Witness ==
    /\ pc = "prompt"
    /\ coords # {}
    /\ Revealed(board) = DOMAIN board \ coords

(***************************************************************************)
(* C11.  Every call of evaluate_tile terminates: at every moment a state   *)
(* follows in which no call of evaluate_tile is active, that is, every     *)
(* call that was started has returned.                                     *)
(***************************************************************************)
C11_EvaluateTerminates ==
    []<>(stack = << >>)

\* A flood fill is three calls deep and about to evaluate a tile again that
\* a deeper call has revealed.
C11_Witness ==
    /\ pc = "in_evaluate"
    /\ Len(stack) >= 3
    /\ Top.pc = "start"
    /\ board[Top.tile].revealed

(***************************************************************************)
(* C12.  Within one flood fill no tile is evaluated twice: a recursive     *)
(* call of evaluate_tile never starts on a tile that is already revealed.  *)
(* (Within a flood fill only evaluate_tile reveals tiles, and the list of  *)
(* a call holds tiles unrevealed when the list was built: a recursive call *)
(* that starts on a revealed tile is a second evaluation of that tile.)    *)
(***************************************************************************)
C12_NoTileEvaluatedTwice ==
    \A k \in 2 .. Len(stack) :
        stack[k].pc = "start" => ~board[stack[k].tile].revealed

(***************************************************************************)
(* C13.  During a flood fill the game loop started on a tile that is no    *)
(* mine, no call of evaluate_tile is on a mine, and every mine stays an    *)
(* unrevealed tile of kind Mine.                                           *)
(***************************************************************************)
C13_FloodFillAvoidsMines ==
    (pc = "in_evaluate" /\ keep_playing) =>
        /\ \A k \in 1 .. Len(stack) : stack[k].tile \notin coords
        /\ \A p \in coords : board[p].tile_type = "mine" /\ ~board[p].revealed

\* A flood fill is three calls deep on a board with a mine.
C13_Witness ==
    /\ pc = "in_evaluate"
    /\ keep_playing
    /\ coords # {}
    /\ Len(stack) >= 3
    /\ Top.pc = "start"

\* The mines among the unrevealed neighbours of p in board b.
UnrevealedMines(b, p) ==
    {q \in Nbrs(p) : ~b[q].revealed /\ b[q].tile_type = "mine"}

(***************************************************************************)
(* C14.  When evaluate_tile runs on a tile that has k > 0 mines among its  *)
(* unrevealed neighbours, it sets that tile to revealed, kind Empty and    *)
(* count k, makes no recursive call (the call returns), and leaves every   *)
(* other tile unchanged.                                                   *)
(***************************************************************************)
C14_NumberedTile ==
    [][(pc = "in_evaluate" /\ Top.pc = "start"
          /\ UnrevealedMines(board, Top.tile) # {}) =>
              /\ board' = [board EXCEPT ![Top.tile] =
                     Tile("empty", TRUE, Cardinality(UnrevealedMines(board, Top.tile)))]
              /\ stack' = Pop]_vars

\* A recursive call has just returned from a tile that touches a mine.
C14_Witness ==
    /\ pc = "in_evaluate"
    /\ Top.pc = "loop"
    /\ Top.i >= 2
    /\ board[Top.adj[Top.i - 1]].n_adjacent_mines >= 1

(***************************************************************************)
(* C15.  When the player enters coordinates outside 0 .. size-1, get_tile  *)
(* returns None and the game loop fails on the absent tile: no tile is     *)
(* changed by the selection and no step follows (no new prompt).           *)
(***************************************************************************)
C15_OutOfRangeFails ==
    [][/\ (pc = "prompt" /\ pc' # "populate" /\ inp' # None
             /\ inp' \notin Positions(size)) =>
              (tile' = None /\ pc' = "error" /\ board' = board /\ stack' = stack)
       /\ pc # "error"]_vars

\* The loop failed on a negative row after some tiles had been revealed.
C15_Witness ==
    /\ pc = "error"
    /\ inp[1] < 0
    /\ Revealed(board) # {}

(***************************************************************************)
(* C16.  In every state a tile whose count is greater than 0 is revealed   *)
(* and of kind Empty: the text of a tile is a digit only for a revealed    *)
(* tile that is no mine.                                                   *)
(***************************************************************************)
C16_CountOnlyOnRevealedEmpty ==
    \A p \in DOMAIN board :
        repr(board[p]) = "digit" =>
            (board[p].revealed /\ board[p].tile_type = "empty")

\* A digit is shown next to an unrevealed tile, at a prompt.
C16_Witness ==
    /\ pc = "prompt"
    /\ \E p \in DOMAIN board : repr(board[p]) = "digit"
    /\ \E p \in DOMAIN board : repr(board[p]) = TILE_TYPES["unknown"]

(***************************************************************************)
(* C17.  The depth of the recursion of evaluate_tile never exceeds         *)
(* size * size: the tiles of the active calls are pairwise distinct.       *)
(***************************************************************************)
C17_DepthBound ==
    /\ Len(stack) <= size * size
    /\ \A j, k \in 1 .. Len(stack) : stack[j].tile = stack[k].tile => j = k

\* The recursion is as deep as the board has tiles.
C17_Witness ==
    /\ size >= 2
    /\ Len(stack) = size * size

(***************************************************************************)
(* C18.  At every prompt (the game is not lost) every revealed tile is of  *)
(* kind Empty and its count is the number of mines among all its in-bounds *)
(* neighbours.                                                             *)
(***************************************************************************)
C18_CountsAreExact ==
    pc = "prompt" =>
        \A p \in Revealed(board) :
            /\ board[p].tile_type = "empty"
            /\ board[p].n_adjacent_mines = AdjMines(p)

\* A prompt with a numbered tile whose neighbours are partly revealed.
C18_Witness ==
    /\ pc = "prompt"
    /\ \E p \in Revealed(board) :
          /\ board[p].n_adjacent_mines >= 1
          /\ \E q \in Nbrs(p) : board[q].revealed
          /\ \E q \in Nbrs(p) : ~board[q].revealed /\ q \notin coords

(***************************************************************************)
(* C19.  At every prompt (the game is not lost) every revealed tile whose  *)
(* count is 0 has all its in-bounds neighbours revealed.                   *)
(***************************************************************************)
C19_ZeroTilesClosed ==
    pc = "prompt" =>
        \A p \in Revealed(board) :
            board[p].n_adjacent_mines = 0 => Nbrs(p) \subseteq Revealed(board)

\* A prompt after a flood fill that left tiles unrevealed.
C19_Witness ==
    /\ pc = "prompt"
    /\ \E p \in Revealed(board) : board[p].n_adjacent_mines = 0 /\ Nbrs(p) # {}
    /\ \E p \in DOMAIN board \ coords : ~board[p].revealed

\* The second of two calls in a row has returned.
SecondCallReturned ==
    /\ pc = "in_evaluate"
    /\ Len(stack) = 1
    /\ Top.pc = "twice"
    /\ Top.i = 1

(***************************************************************************)
(* C20.  evaluate_tile is idempotent on a tile that is no mine: a call of  *)
(* evaluate_tile on a tile right after a completed call on the same tile   *)
(* leaves the kind, the revealed flag and the count of every tile as the   *)
(* first call left them.                                                   *)
(***************************************************************************)
C20_EvaluateIdempotent ==
    SecondCallReturned => board = shown

\* Two calls in a row have returned on a tile that touches no mine, on a
\* board with a mine, an unrevealed tile and a tile of an earlier turn.
C20_Witness ==
    /\ SecondCallReturned
    /\ coords # {}
    /\ board[tile].n_adjacent_mines = 0
    /\ Cardinality(Revealed(board)) >= 4
    /\ \E p \in DOMAIN board \ coords : ~board[p].revealed
    /\ \E p \in Revealed(board) : board[p].n_adjacent_mines >= 1

====
